---- MODULE Spec2Model ----
(***************************************************************************)
(* Model of the byte-patch scripts patches/patch_ctf_flags_map.py and      *)
(* patches/patch_ctf_respawn.py.  Both files hold the same patch_file      *)
(* function and the same two-call driver; they differ only in the          *)
(* descriptor data and in the wording of the mismatch diagnostic.          *)
(*                                                                         *)
(* The file system, the buffered file object of open(filename, "r+b") and  *)
(* binascii.unhexlify are modelled by what they do.  An I/O error is an    *)
(* environment choice: open may fail, seek/read may fail, the seek-back    *)
(* before the write may fail, and the flush that the with-block performs   *)
(* on exit may fail after any prefix of the buffered bytes reached the     *)
(* file.                                                                   *)
(***************************************************************************)
EXTENDS Integers, Sequences, FiniteSets, TLC

\* ---------------------------------------------------------------- bounds
MaxFileLen == 2      \* longest initial file content
MaxOffset == 1       \* largest descriptor offset
\* __main__ makes two calls of patch_file
NumCalls == 2

static_file == "static"
dynamic_file == "dynamic"
Paths == {static_file, dynamic_file}
FileBytes == {0, 1}

\* ------------------------------------------------------------ hex decoding
HexDigits == {"0","1","2","3","4","5","6","7","8","9",
              "a","b","c","d","e","f","A","B","C","D","E","F"}

\* characters that are not ASCII (a non-breaking space pasted into the text)
NonAscii == {"nbsp"}

HexValue(c) ==
    CASE c = "0" -> 0  [] c = "1" -> 1  [] c = "2" -> 2  [] c = "3" -> 3
      [] c = "4" -> 4  [] c = "5" -> 5  [] c = "6" -> 6  [] c = "7" -> 7
      [] c = "8" -> 8  [] c = "9" -> 9
      [] c \in {"a","A"} -> 10 [] c \in {"b","B"} -> 11
      [] c \in {"c","C"} -> 12 [] c \in {"d","D"} -> 13
      [] c \in {"e","E"} -> 14 [] c \in {"f","F"} -> 15
      [] OTHER -> 0

\* str.replace(" ", ""): drops the ASCII spaces, nothing else
IsNotSpace(c) == c # " "
StripSpaces(text) == SelectSeq(text, IsNotSpace)

\* binascii.unhexlify on a str: a non-ASCII character raises ValueError,
\* an odd digit count or a non-hex character raises binascii.Error
unhexlify(text) ==
    IF \E i \in 1..Len(text) : text[i] \in NonAscii
    THEN [kind |-> "ValueError", bytes |-> <<>>]
    ELSE IF Len(text) % 2 = 1 \/ \E i \in 1..Len(text) : text[i] \notin HexDigits
    THEN [kind |-> "Error", bytes |-> <<>>]
    ELSE [kind |-> "bytes",
          bytes |-> [i \in 1..(Len(text) \div 2) |->
                        16 * HexValue(text[2*i - 1]) + HexValue(text[2*i])]]

\* the (original_hex, new_hex) texts the descriptors are drawn from
H00 == <<"0","0">>
H01 == <<"0","1">>
H0100 == <<"0","1"," ","0","0">>
H0001 == <<"0","0","0","1">>
HexPairs ==
    { <<H01, H00>>,                   \* equal lengths
      <<H0100, H0001>>,               \* equal lengths, two bytes
      <<H01, H01>>,                   \* replacement = original
      <<H0100, H01>>,                 \* replacement a proper prefix of original
      <<H0100, H00>>,                 \* replacement shorter
      <<H01, H0100>>,                 \* original a proper prefix of replacement
      <<H00, H0100>>,                 \* replacement longer
      <<<<"0">>, H00>>,               \* odd digit count
      <<H00, <<"0","g">>>>,           \* bad digit
      <<<<"0","1","nbsp","0","0">>, H00>> }   \* non-ASCII separator

\* ------------------------------------------------------------ file content
Min(a, b) == IF a < b THEN a ELSE b
Max(a, b) == IF a < b THEN b ELSE a

\* (variant) a read that pads a short result with zero bytes up to n
ReadAtPadded(data, offset, n) ==
    [i \in 1..n |-> IF offset + i <= Len(data) THEN data[offset + i] ELSE 0]

\* f.seek(offset); f.read(n): at most n bytes, fewer at end of file
ReadAt(data, offset, n) ==
    IF offset >= Len(data) THEN <<>>
    ELSE SubSeq(data, offset + 1, Min(offset + n, Len(data)))

\* (variant) a file opened for append: every write lands at the end
WriteAtAppend(data, offset, bytes) == data \o bytes

\* (variant) a file opened with truncation: only the written bytes survive
WriteAtTruncate(data, offset, bytes) ==
    IF Len(bytes) = 0 THEN data
    ELSE [i \in 1..(offset + Len(bytes)) |->
            IF i > offset THEN bytes[i - offset] ELSE 0]

\* (variant) a write that stops one byte early and reports success
WriteAtShort(data, offset, bytes) ==
    IF Len(bytes) = 0 THEN data
    ELSE [i \in 1..Max(Len(data), offset + Len(bytes) - 1) |->
            IF i > offset /\ i < offset + Len(bytes) THEN bytes[i - offset]
            ELSE IF i <= Len(data) THEN data[i]
            ELSE 0]

\* f.seek(offset); f.write(bytes) reaching the file: overwrite in place,
\* extend past the end, zero-fill a hole; nothing is truncated
WriteAt(data, offset, bytes) ==
    IF Len(bytes) = 0 THEN data
    ELSE [i \in 1..Max(Len(data), offset + Len(bytes)) |->
            IF i > offset /\ i <= offset + Len(bytes) THEN bytes[i - offset]
            ELSE IF i <= Len(data) THEN data[i]
            ELSE 0]

\* (variant) no verification: whatever is not the replacement gets patched
ClassifyNoVerify(data, orig, new) ==
    IF data = new THEN "patched" ELSE "unpatched"

\* (variant) no already-patched branch
ClassifyNoPatchedCheck(data, orig, new) ==
    IF data = orig THEN "unpatched" ELSE "unknown"

\* lines 67, 75, 78: the three-way comparison of the bytes read
Classify(data, orig, new) ==
    IF data = orig THEN "unpatched"
    ELSE IF data = new THEN "patched"
    ELSE "unknown"

\* (variant) no existence test
existsAlways(filesystem, filename) == TRUE

\* line 41: os.path.exists(filename)
exists(filesystem, filename) == filesystem[filename].exists

\* (variant) no length check
LengthCheckSilent(orig, new) == <<>>

\* lines 54-55: the warning printed when the two lengths differ
LengthCheck(orig, new) ==
    IF Len(orig) # Len(new) THEN <<"WARNING">> ELSE <<>>

\* (variant) no with-block: an exception skips the close
CloseHandleUnlessRaised(h, exc) == IF exc THEN h ELSE h - 1

\* line 59: the with-block closes the handle however the block is left
CloseHandle(h, exc) == h - 1

\* ------------------------------------------------------------------ state
VARIABLES
    fs,            \* path -> [exists, data]: the files on disk
    descs,         \* the driver's descriptor list (the calls under __main__)
    idx,           \* index of the next descriptor the driver hands to patch_file
    pc,            \* "main", "open", "verify", "close", "done", "crashed"
    orig_bytes,    \* patch_file local
    new_bytes,     \* patch_file local
    current_data,  \* patch_file local
    wbuf,          \* bytes f.write left in the file object's buffer
    raised,        \* an IOError is propagating out of the with-block
    handles,       \* number of open file handles
    out,           \* tags of the lines the running call has printed
    before,        \* fs when the running call was entered
    didread,       \* the running call's f.read returned
    calls          \* one record per call that has returned or crashed

vars == <<fs, descs, idx, pc, orig_bytes, new_bytes, current_data, wbuf,
          raised, handles, out, before, didread, calls>>

NoFile == [exists |-> FALSE, data |-> <<>>]
File(data) == [exists |-> TRUE, data |-> data]

SeqsUpTo(S, n) == UNION { [1..k -> S] : k \in 0..n }

Contents == { File(d) : d \in SeqsUpTo(FileBytes, MaxFileLen) } \cup {NoFile}

\* the second binary is drawn from a smaller set than the first, and is
\* patched at offset 0 only
DynamicContents == {NoFile, File(<<0>>)}

Descriptors ==
    { [filename |-> p, offset |-> o, original_hex |-> h[1], new_hex |-> h[2]] :
        p \in Paths, o \in 0..MaxOffset, h \in HexPairs }

DescLists == [1..NumCalls -> Descriptors]

Named(list) == { list[i].filename : i \in 1..Len(list) }

\* the data model: original and replacement, once decoded, are non-empty
\* (every text of HexPairs that decodes has at least one byte)
Init ==
    /\ descs \in DescLists
    /\ descs[1].filename = static_file
    /\ fs \in [Paths -> Contents]
    /\ fs[dynamic_file] \in DynamicContents
    /\ \A i \in 1..NumCalls : descs[i].filename = dynamic_file => descs[i].offset = 0
    /\ \A p \in Paths : p \notin Named(descs) => fs[p] = NoFile
    /\ idx = 1
    /\ pc = "main"
    /\ orig_bytes = <<>>
    /\ new_bytes = <<>>
    /\ current_data = <<>>
    /\ wbuf = <<>>
    /\ raised = FALSE
    /\ handles = 0
    /\ out = <<>>
    /\ before = fs
    /\ didread = FALSE
    /\ calls = <<>>

\* -------------------------------------------------------------- patch_file
cur == descs[idx]

\* the record of the running call, taken when it returns or crashes
CallRecord(o, fsAfter, opened, written) ==
    [d |-> cur, before |-> before, after |-> fsAfter, out |-> o,
     opened |-> opened, didread |-> didread, data |-> current_data,
     written |-> written]

\* `return` (or falling off the end after print("\n")): back in __main__
Return(o, fsAfter, opened, written) ==
    /\ calls' = Append(calls, CallRecord(o, fsAfter, opened, written))
    /\ idx' = idx + 1
    /\ pc' = "main"
    /\ orig_bytes' = <<>>
    /\ new_bytes' = <<>>
    /\ current_data' = <<>>
    /\ wbuf' = <<>>
    /\ raised' = FALSE
    /\ didread' = FALSE
    /\ out' = <<>>
    /\ before' = fsAfter

\* lines 38-55: the call from __main__, the existence test, the hex decoding
\* (original first, replacement second) and the length check
Enter ==
    /\ pc = "main"
    /\ idx <= Len(descs)
    /\ LET o == unhexlify(StripSpaces(cur.original_hex))
           n == unhexlify(StripSpaces(cur.new_hex))
       IN  IF ~exists(fs, cur.filename)
           THEN /\ Return(<<"NOTFOUND">>, fs, FALSE, <<>>)
                /\ UNCHANGED <<fs, descs, handles>>
           ELSE IF o.kind = "Error" \/ (o.kind = "bytes" /\ n.kind = "Error")
           THEN /\ Return(<<"BADHEX">>, fs, FALSE, <<>>)
                /\ UNCHANGED <<fs, descs, handles>>
           ELSE IF o.kind = "ValueError" \/ n.kind = "ValueError"
           THEN \* ValueError is not binascii.Error: nothing catches it
                /\ calls' = Append(calls, CallRecord(<<"TRACEBACK">>, fs, FALSE, <<>>))
                /\ pc' = "crashed"
                /\ UNCHANGED <<fs, descs, idx, orig_bytes, new_bytes,
                               current_data, wbuf, raised, handles, out,
                               before, didread>>
           ELSE /\ orig_bytes' = o.bytes
                /\ new_bytes' = n.bytes
                /\ out' = LengthCheck(o.bytes, n.bytes)
                /\ pc' = "open"
                /\ UNCHANGED <<fs, descs, idx, current_data, wbuf, raised,
                               handles, before, didread, calls>>

\* line 59: open(filename, "r+b"); r+ neither creates nor truncates
Open ==
    /\ pc = "open"
    /\ \/ /\ handles' = handles + 1
          /\ pc' = "verify"
          /\ UNCHANGED <<fs, descs, idx, orig_bytes, new_bytes,
                         current_data, wbuf, raised, out, before, didread, calls>>
       \/ \* IOError from open: lines 84-86
          /\ Return(Append(out, "ERROR"), fs, FALSE, <<>>)
          /\ UNCHANGED <<fs, descs, handles>>

\* lines 61-82: seek, read, three-way compare; f.write only fills the buffer
Verify ==
    /\ pc = "verify"
    /\ pc' = "close"
    /\ \/ \* IOError from f.seek or f.read
          /\ raised' = TRUE
          /\ UNCHANGED <<current_data, wbuf, out, didread>>
       \/ LET data == ReadAt(fs[cur.filename].data, cur.offset, Len(orig_bytes))
              state == Classify(data, orig_bytes, new_bytes)
          IN  /\ current_data' = data
              /\ didread' = TRUE
              /\ IF state = "unpatched"
                 THEN \/ \* IOError from the seek back to offset
                         /\ out' = Append(out, "OK")
                         /\ raised' = TRUE
                         /\ wbuf' = <<>>
                      \/ /\ out' = out \o <<"OK", "SUCCESS">>
                         /\ raised' = FALSE
                         /\ wbuf' = new_bytes
                 ELSE IF state = "patched"
                 THEN /\ out' = Append(out, "INFO")
                      /\ UNCHANGED <<raised, wbuf>>
                 ELSE /\ out' = Append(out, "FAIL")
                      /\ UNCHANGED <<raised, wbuf>>
    /\ UNCHANGED <<fs, descs, idx, orig_bytes, new_bytes, handles, before,
                   calls>>

\* leaving the with-block: the buffer is flushed and the handle closed on
\* every path; then lines 84-86
Close ==
    /\ pc = "close"
    /\ handles' = CloseHandle(handles, raised)
    /\ \/ \* the flush (if any) succeeds
          LET after == [fs EXCEPT ![cur.filename].data =
                            WriteAt(@, cur.offset, wbuf)]
          IN  /\ fs' = after
              /\ Return(IF raised THEN Append(out, "ERROR") ELSE out,
                        after, TRUE, wbuf)
       \/ \* the flush fails after k bytes reached the file
          /\ wbuf # <<>>
          /\ \E k \in 0..Len(wbuf) :
               LET part == SubSeq(wbuf, 1, k)
                   after == [fs EXCEPT ![cur.filename].data =
                                WriteAt(@, cur.offset, part)]
               IN  /\ fs' = after
                   /\ Return(Append(out, "ERROR"), after, TRUE, part)
    /\ UNCHANGED descs

\* lines 108-110: __main__ has made its last call
Finish ==
    /\ pc = "main"
    /\ idx > Len(descs)
    /\ pc' = "done"
    /\ UNCHANGED <<fs, descs, idx, orig_bytes, new_bytes, current_data,
                   wbuf, raised, handles, out, before, didread, calls>>

Next == Enter \/ Open \/ Verify \/ Close \/ Finish

Spec == Init /\ [][Next]_vars

\* ------------------------------------------------------- reading a call
Has(o, tag) == \E i \in 1..Len(o) : o[i] = tag

\* the result a call reported, from the lines it printed
Result(o) ==
    IF Has(o, "TRACEBACK") THEN "Crash"
    ELSE IF Has(o, "NOTFOUND") THEN "NotFound"
    ELSE IF Has(o, "BADHEX") THEN "MalformedHex"
    ELSE IF Has(o, "ERROR") THEN "IOFailure"
    ELSE IF Has(o, "SUCCESS") THEN "Applied"
    ELSE IF Has(o, "INFO") THEN "AlreadyApplied"
    ELSE IF Has(o, "FAIL") THEN "Mismatch"
    ELSE "None"

Original(d) == unhexlify(StripSpaces(d.original_hex))
Replacement(d) == unhexlify(StripSpaces(d.new_hex))
WellFormed(d) == Original(d).kind = "bytes" /\ Replacement(d).kind = "bytes"

DataBefore(c) == c.before[c.d.filename].data
DataAfter(c) == c.after[c.d.filename].data
ExistedBefore(c) == c.before[c.d.filename].exists

\* the bytes of the file at [offset, offset+len(original)) when c was entered
PreImage(c) == ReadAt(DataBefore(c), c.d.offset, Len(Original(c.d).bytes))

Calls == { calls[i] : i \in 1..Len(calls) }

\* ------------------------------------------------------------------ claims

\* C1 -- write exclusivity: a call lets bytes reach the file (or changes any
\* file) only if the file existed and the bytes it read at
\* [offset, offset+len(original)) are exactly original; a call that read
\* bytes equal to neither original nor replacement reports Mismatch, and a
\* call that reports Mismatch leaves every file byte for byte as it was.
C1_WriteExclusivity ==
    \A c \in Calls :
        /\ (c.written # <<>> \/ c.after # c.before) =>
              /\ ExistedBefore(c)
              /\ WellFormed(c.d)
              /\ c.didread
              /\ c.data = Original(c.d).bytes
              /\ PreImage(c) = Original(c.d).bytes
        /\ (c.didread /\ c.data # Original(c.d).bytes
                      /\ c.data # Replacement(c.d).bytes) =>
              Result(c.out) = "Mismatch"
        /\ Result(c.out) = "Mismatch" =>
              /\ c.after = c.before
              /\ c.written = <<>>

\* a third byte sequence of full length in the window, reported as Mismatch
C1_Witness ==
    \E c \in Calls :
        /\ Result(c.out) = "Mismatch"
        /\ Len(c.data) = Len(Original(c.d).bytes)
        /\ c.data # Original(c.d).bytes
        /\ c.data # Replacement(c.d).bytes
        /\ c.after = c.before

\* C4 -- scope containment: after any call, whatever it reported, no other
\* file changed, no file was created or removed, and every position of the
\* target outside [offset, offset+len(replacement)) exists exactly if it
\* existed before and holds the byte it held before.
C4_ScopeContainment ==
    \A c \in Calls :
        /\ \A p \in Paths \ {c.d.filename} : c.after[p] = c.before[p]
        /\ c.after[c.d.filename].exists = ExistedBefore(c)
        /\ \A i \in 1..Max(Len(DataBefore(c)), Len(DataAfter(c))) :
              (i <= c.d.offset \/ i > c.d.offset + Len(Replacement(c.d).bytes)) =>
                 /\ (i <= Len(DataBefore(c))) <=> (i <= Len(DataAfter(c)))
                 /\ i <= Len(DataBefore(c)) => DataAfter(c)[i] = DataBefore(c)[i]

\* an Applied call that changed the file and had a byte in front of its window
C4_Witness ==
    \E c \in Calls :
        /\ Result(c.out) = "Applied"
        /\ c.d.offset > 0
        /\ DataAfter(c) # DataBefore(c)

\* C8 -- missing-file safety: a call whose target does not exist reports
\* NotFound, opens nothing, reads nothing, writes nothing, creates nothing,
\* and returns to the driver (no traceback).
C8_MissingFileSafety ==
    \A c \in Calls :
        ~ExistedBefore(c) =>
            /\ Result(c.out) = "NotFound"
            /\ ~c.opened
            /\ ~c.didread
            /\ c.written = <<>>
            /\ c.after = c.before

\* a missing target whose call returned and was followed by the next call,
\* with hex text that would not even decode
C8_Witness ==
    /\ Len(calls) = 2
    /\ ~ExistedBefore(calls[1])
    /\ Replacement(calls[1].d).kind = "Error"
    /\ Result(calls[1].out) = "NotFound"

\* C10 -- scoped handle: at most one handle is ever open, one is open only
\* between open and the end of the with-block, and none is open when the
\* driver is between calls or the run has ended.
C10_ScopedHandle ==
    /\ handles \in {0, 1}
    /\ pc \in {"main", "open", "done", "crashed"} => handles = 0
    /\ pc \in {"verify", "close"} => handles = 1

\* the driver is about to start the second descriptor after the first one
\* failed with an I/O error inside the with-block
C10_Witness ==
    /\ pc = "main"
    /\ Len(calls) = 1
    /\ calls[1].opened
    /\ Result(calls[1].out) = "IOFailure"
    /\ handles = 0

\* a is a prefix of b (a = b included)
IsPrefix(a, b) == Len(a) <= Len(b) /\ SubSeq(b, 1, Len(a)) = a

\* C2 (as claimed) -- for any descriptor, equal lengths or not, whose window
\* holds original: two calls in a row report Applied, then AlreadyApplied.
\* The claim does not speak of I/O failures or of a replacement equal to
\* original; it is read here, in its favour, for the pairs of calls that
\* report no I/O failure and the descriptors whose two sequences differ.
C2_Original ==
    \A i \in 1..(Len(calls) - 1) :
        LET a == calls[i]
            b == calls[i + 1]
        IN  (/\ a.d = b.d
             /\ WellFormed(a.d)
             /\ Original(a.d).bytes # Replacement(a.d).bytes
             /\ ExistedBefore(a)
             /\ PreImage(a) = Original(a.d).bytes
             /\ Result(a.out) # "IOFailure"
             /\ Result(b.out) # "IOFailure") =>
                /\ Result(a.out) = "Applied"
                /\ Result(b.out) = "AlreadyApplied"

\* C2 (amended) -- when the window holds original and neither call reports an
\* I/O failure, the first call reports Applied; the second reports
\* AlreadyApplied exactly when the two sequences have equal length and
\* differ; otherwise it reports Applied again when one sequence is a prefix
\* of the other (original = replacement included) and Mismatch when not.
C2_Idempotence ==
    \A i \in 1..(Len(calls) - 1) :
        LET a == calls[i]
            b == calls[i + 1]
            o == Original(a.d).bytes
            n == Replacement(a.d).bytes
        IN  (/\ a.d = b.d
             /\ WellFormed(a.d)
             /\ ExistedBefore(a)
             /\ PreImage(a) = o
             /\ Result(a.out) # "IOFailure"
             /\ Result(b.out) # "IOFailure") =>
                /\ Result(a.out) = "Applied"
                /\ Result(b.out) =
                     IF Len(o) = Len(n) /\ o # n THEN "AlreadyApplied"
                     ELSE IF IsPrefix(o, n) \/ IsPrefix(n, o) THEN "Applied"
                     ELSE "Mismatch"

\* the same descriptor twice: Applied with a changed file, then AlreadyApplied
C2_Witness ==
    /\ Len(calls) = 2
    /\ calls[1].d = calls[2].d
    /\ Result(calls[1].out) = "Applied"
    /\ calls[1].after # calls[1].before
    /\ Result(calls[2].out) = "AlreadyApplied"

\* C3 (as claimed) -- once the first call of a descriptor has returned, every
\* later call of the same descriptor leaves the target file as the first
\* call left it, whatever the calls report.
C3_Original ==
    \A j \in 2..Len(calls) :
        (\A i \in 1..j : calls[i].d = calls[1].d) =>
            calls[j].after[calls[1].d.filename] = calls[1].after[calls[1].d.filename]

\* C3 (amended) -- the same, provided the first call did not report an I/O
\* failure.
C3_NoFurtherMutation ==
    \A j \in 2..Len(calls) :
        (/\ \A i \in 1..j : calls[i].d = calls[1].d
         /\ Result(calls[1].out) # "IOFailure") =>
            calls[j].after[calls[1].d.filename] = calls[1].after[calls[1].d.filename]

\* the first call patched the file; the second call of the same descriptor
\* wrote again, failed in the flush, and the file is still as the first left it
C3_Witness ==
    /\ Len(calls) = 2
    /\ calls[1].d = calls[2].d
    /\ Result(calls[1].out) = "Applied"
    /\ calls[1].after # calls[1].before
    /\ Result(calls[2].out) = "IOFailure"
    /\ calls[2].written # <<>>
    /\ calls[2].after = calls[1].after

\* C5 -- every call that reports NotFound, AlreadyApplied, Mismatch or
\* IOFailure leaves every file exactly as it was when the call was entered.
C5_OnlyAppliedHasEffect ==
    \A c \in Calls :
        Result(c.out) \in {"NotFound", "AlreadyApplied", "Mismatch", "IOFailure"} =>
            c.after = c.before

\* C6 (as claimed) -- whenever the bytes read equal original, the call
\* reports Applied, exactly replacement was written, the file holds
\* replacement at [offset, offset+len(replacement)), and the bytes at
\* [offset+len(replacement), offset+len(original)) are as before.
C6_Original ==
    \A c \in Calls :
        LET o == Original(c.d).bytes
            n == Replacement(c.d).bytes
        IN  (WellFormed(c.d) /\ ExistedBefore(c) /\ c.didread /\ c.data = o) =>
                /\ Result(c.out) = "Applied"
                /\ c.written = n
                /\ ReadAt(DataAfter(c), c.d.offset, Len(n)) = n
                /\ \A i \in (c.d.offset + Len(n) + 1)..(c.d.offset + Len(o)) :
                      DataAfter(c)[i] = DataBefore(c)[i]

\* C6 (amended) -- the same, for the calls that report no I/O failure.
C6_AppliedPostcondition ==
    \A c \in Calls :
        LET o == Original(c.d).bytes
            n == Replacement(c.d).bytes
        IN  (/\ WellFormed(c.d) /\ ExistedBefore(c) /\ c.didread /\ c.data = o
             /\ Result(c.out) # "IOFailure") =>
                /\ Result(c.out) = "Applied"
                /\ c.written = n
                /\ ReadAt(DataAfter(c), c.d.offset, Len(n)) = n
                /\ \A i \in (c.d.offset + Len(n) + 1)..(c.d.offset + Len(o)) :
                      DataAfter(c)[i] = DataBefore(c)[i]

\* Applied with a replacement shorter than original: the tail of the window
\* is the tail of original
C6_Witness ==
    \E c \in Calls :
        /\ Result(c.out) = "Applied"
        /\ Len(Replacement(c.d).bytes) < Len(Original(c.d).bytes)
        /\ DataAfter(c) # DataBefore(c)
        /\ Len(DataAfter(c)) = Len(DataBefore(c))

\* C7 (as claimed) -- a call that read from a file shorter than
\* offset+len(original) reports Mismatch and writes nothing.
C7_Original ==
    \A c \in Calls :
        (/\ WellFormed(c.d) /\ ExistedBefore(c) /\ c.didread
         /\ Len(DataBefore(c)) < c.d.offset + Len(Original(c.d).bytes)) =>
            /\ Result(c.out) = "Mismatch"
            /\ c.written = <<>>
            /\ c.after = c.before

\* C7 (amended) -- such a call never reports Applied and writes nothing; it
\* reports Mismatch, except that it reports AlreadyApplied when the bytes it
\* got are exactly replacement, which takes a replacement shorter than
\* original.
C7_ShortRead ==
    \A c \in Calls :
        (/\ WellFormed(c.d) /\ ExistedBefore(c) /\ c.didread
         /\ Len(DataBefore(c)) < c.d.offset + Len(Original(c.d).bytes)) =>
            /\ Len(c.data) < Len(Original(c.d).bytes)
            /\ Result(c.out) =
                 IF c.data = Replacement(c.d).bytes THEN "AlreadyApplied"
                 ELSE "Mismatch"
            /\ Result(c.out) = "AlreadyApplied" =>
                 Len(Replacement(c.d).bytes) < Len(Original(c.d).bytes)
            /\ c.written = <<>>
            /\ c.after = c.before

\* a read that returned some bytes, but fewer than len(original): Mismatch
C7_Witness ==
    \E c \in Calls :
        /\ c.didread
        /\ Len(c.data) > 0
        /\ Len(c.data) < Len(Original(c.d).bytes)
        /\ Result(c.out) = "Mismatch"

\* C9 -- failure isolation: the calls made so far are the descriptors of the
\* list, once each and in list order; the run never dies in a call; and the
\* run has ended only when every descriptor has been evaluated to completion.
C9_FailureIsolation ==
    /\ Len(calls) <= Len(descs)
    /\ \A i \in 1..Len(calls) : calls[i].d = descs[i]
    /\ pc # "crashed"
    /\ \A i \in 1..Len(calls) : Result(calls[i].out) # "Crash"
    /\ pc = "done" => Len(calls) = Len(descs)

\* the state of a file relative to a descriptor, by the bytes it holds at
\* [offset, offset+len(original)): Unpatched, Patched or Corrupted
WindowState(data, d) ==
    LET w == ReadAt(data, d.offset, Len(Original(d).bytes))
    IN  IF w = Original(d).bytes THEN "Unpatched"
        ELSE IF w = Replacement(d).bytes THEN "Patched"
        ELSE "Corrupted"

\* calls 1..j were all made with the first call's descriptor
SameDescriptor(j) == \A i \in 1..j : calls[i].d = calls[1].d

\* C11 (as claimed) -- when the window of an existing file holds neither
\* original nor replacement, every call of that descriptor reports Mismatch
\* and leaves the file unchanged.
C11_Original ==
    \A j \in 1..Len(calls) :
        (/\ SameDescriptor(j)
         /\ WellFormed(calls[1].d)
         /\ ExistedBefore(calls[1])
         /\ WindowState(DataBefore(calls[1]), calls[1].d) = "Corrupted") =>
            /\ Result(calls[j].out) = "Mismatch"
            /\ calls[j].after = calls[1].before

\* C11 (amended) -- under the same condition every call of that descriptor
\* leaves the file unchanged and writes nothing; it reports Mismatch when its
\* read returned, and IOFailure when open, seek or read failed; it never
\* reports Applied or AlreadyApplied.
C11_CorruptedAbsorbing ==
    \A j \in 1..Len(calls) :
        (/\ SameDescriptor(j)
         /\ WellFormed(calls[1].d)
         /\ ExistedBefore(calls[1])
         /\ WindowState(DataBefore(calls[1]), calls[1].d) = "Corrupted") =>
            /\ calls[j].after = calls[1].before
            /\ calls[j].written = <<>>
            /\ Result(calls[j].out) =
                 IF calls[j].didread THEN "Mismatch" ELSE "IOFailure"
            /\ WindowState(DataAfter(calls[j]), calls[1].d) = "Corrupted"

\* two calls of one descriptor on a full-length window that holds a third
\* sequence: Mismatch both times
C11_Witness ==
    /\ Len(calls) = 2
    /\ calls[1].d = calls[2].d
    /\ Len(PreImage(calls[1])) = Len(Original(calls[1].d).bytes)
    /\ Result(calls[1].out) = "Mismatch"
    /\ Result(calls[2].out) = "Mismatch"
    /\ calls[2].after = calls[1].before

\* none of calls 1..j reported an I/O failure
NoIOFailure(j) == \A i \in 1..j : Result(calls[i].out) # "IOFailure"

\* C12 (as claimed) -- for any descriptor, equal lengths or not: from a
\* window that classifies as Unpatched or Patched, calls of that descriptor
\* never leave a window that classifies as Corrupted, and each call takes
\* Unpatched to Patched or Patched to Patched.  The claim is read here, in
\* its favour, for the calls that report no I/O failure and the descriptors
\* whose two sequences differ.
C12_Original ==
    \A j \in 1..Len(calls) :
        LET d == calls[1].d
        IN  (/\ SameDescriptor(j)
             /\ WellFormed(d)
             /\ Original(d).bytes # Replacement(d).bytes
             /\ ExistedBefore(calls[1])
             /\ WindowState(DataBefore(calls[1]), d) # "Corrupted"
             /\ NoIOFailure(j)) =>
                /\ WindowState(DataAfter(calls[j]), d) # "Corrupted"
                /\ <<WindowState(DataBefore(calls[j]), d),
                     WindowState(DataAfter(calls[j]), d)>>
                       \in {<<"Unpatched", "Patched">>, <<"Patched", "Patched">>}

\* C12 (amended) -- for a descriptor with len(original) = len(replacement):
\* from a window that classifies as Unpatched or Patched, every call of a
\* sequence of calls none of which reports an I/O failure leaves the window
\* holding replacement; it reports Applied from Unpatched and AlreadyApplied
\* from Patched.
C12_CorruptedUnreachable ==
    \A j \in 1..Len(calls) :
        LET d == calls[1].d
            o == Original(d).bytes
            n == Replacement(d).bytes
        IN  (/\ SameDescriptor(j)
             /\ WellFormed(d)
             /\ Len(o) = Len(n)
             /\ ExistedBefore(calls[1])
             /\ WindowState(DataBefore(calls[1]), d) # "Corrupted"
             /\ NoIOFailure(j)) =>
                /\ ReadAt(DataAfter(calls[j]), d.offset, Len(o)) = n
                /\ Result(calls[j].out) =
                     IF WindowState(DataBefore(calls[j]), d) = "Unpatched"
                     THEN "Applied" ELSE "AlreadyApplied"

\* a two-byte window taken from Unpatched to Patched by the first call and
\* found Patched by the second
C12_Witness ==
    /\ Len(calls) = 2
    /\ calls[1].d = calls[2].d
    /\ Len(Original(calls[1].d).bytes) = 2
    /\ Len(Replacement(calls[1].d).bytes) = 2
    /\ WindowState(DataBefore(calls[1]), calls[1].d) = "Unpatched"
    /\ WindowState(DataAfter(calls[1]), calls[1].d) = "Patched"
    /\ WindowState(DataAfter(calls[2]), calls[1].d) = "Patched"
    /\ Result(calls[2].out) = "AlreadyApplied"

\* C13 (as claimed) -- LengthWarning is emitted exactly when len(original)
\* differs from len(replacement), whatever else the call reports (NotFound
\* included), and does not block the write when the bytes read equal
\* original.
C13_Original ==
    \A c \in Calls :
        WellFormed(c.d) =>
            /\ Has(c.out, "WARNING") <=>
                 Len(Original(c.d).bytes) # Len(Replacement(c.d).bytes)
            /\ (c.didread /\ c.data = Original(c.d).bytes) =>
                 Result(c.out) \in {"Applied", "IOFailure"}

\* C13 (amended) -- LengthWarning is emitted exactly when the target exists,
\* both hex texts decode and the two lengths differ; it never accompanies
\* NotFound or MalformedHex; a call that warned and read original goes on to
\* the write: it reports Applied with replacement written in full, or
\* IOFailure.
C13_LengthWarningAdvisory ==
    \A c \in Calls :
        /\ Has(c.out, "WARNING") <=>
             /\ ExistedBefore(c)
             /\ WellFormed(c.d)
             /\ Len(Original(c.d).bytes) # Len(Replacement(c.d).bytes)
        /\ Has(c.out, "WARNING") =>
             Result(c.out) \in {"Applied", "AlreadyApplied", "Mismatch", "IOFailure"}
        /\ (Has(c.out, "WARNING") /\ c.didread /\ c.data = Original(c.d).bytes) =>
             /\ Result(c.out) \in {"Applied", "IOFailure"}
             /\ Result(c.out) = "Applied" => c.written = Replacement(c.d).bytes

\* one run in which the warning accompanied Applied (the file changed) and
\* then Mismatch
C13_Witness ==
    /\ Len(calls) = 2
    /\ Has(calls[1].out, "WARNING")
    /\ Result(calls[1].out) = "Applied"
    /\ calls[1].after # calls[1].before
    /\ Has(calls[2].out, "WARNING")
    /\ Result(calls[2].out) = "Mismatch"

\* C14 -- a descriptor whose original or replacement hex text does not
\* decode is reported as MalformedHex; its target is not opened, read or
\* written; and the call returns to the driver, so that the next descriptor
\* is processed.  The claim says so for a missing target as well; it is read
\* here, in its favour, for the targets that exist (a missing target is
\* reported as NotFound before anything is decoded).
C14_MalformedHexDistinct ==
    \A c \in Calls :
        (~WellFormed(c.d) /\ ExistedBefore(c)) =>
            /\ Result(c.out) = "MalformedHex"
            /\ ~c.opened
            /\ ~c.didread
            /\ c.written = <<>>
            /\ c.after = c.before

\* C15 -- file length: no call shortens its target or changes whether it
\* exists; when len(replacement) <= len(original) the length is the same
\* after the call as before, whatever the call reports; and the length has
\* grown only if the call reports Applied, len(replacement) > len(original)
\* and offset+len(replacement) lies beyond the previous end of the file.
C15_FileLength ==
    \A c \in Calls :
        LET o == Original(c.d).bytes
            n == Replacement(c.d).bytes
        IN  /\ c.after[c.d.filename].exists = ExistedBefore(c)
            /\ Len(DataAfter(c)) >= Len(DataBefore(c))
            /\ (~WellFormed(c.d) \/ Len(n) <= Len(o)) =>
                  Len(DataAfter(c)) = Len(DataBefore(c))
            /\ Len(DataAfter(c)) > Len(DataBefore(c)) =>
                  /\ Result(c.out) = "Applied"
                  /\ Len(n) > Len(o)
                  /\ c.d.offset + Len(n) > Len(DataBefore(c))

\* ---------------------------------------------------------------------
\* Order of two calls

\* how the environment treated the I/O of call c: which operation raised
\* IOError (k = the bytes of the buffer that reached the file before a
\* failing flush)
ModeOf(c) ==
    IF ~c.opened /\ Has(c.out, "ERROR") THEN [fail |-> "open", k |-> 0]
    ELSE IF c.opened /\ ~c.didread THEN [fail |-> "read", k |-> 0]
    ELSE IF Has(c.out, "ERROR") /\ ~Has(c.out, "SUCCESS")
    THEN [fail |-> "seek", k |-> 0]
    ELSE IF Has(c.out, "ERROR") THEN [fail |-> "flush", k |-> Len(c.written)]
    ELSE [fail |-> "none", k |-> 0]

\* lines 38-86 as one step: the lines printed and the file system left by
\* patch_file(d.filename, d.offset, d.original_hex, d.new_hex) entered on
\* filesystem, the environment treating its I/O as m says
patch_file(filesystem, d, m) ==
    LET o == unhexlify(StripSpaces(d.original_hex))
        n == unhexlify(StripSpaces(d.new_hex))
        warn == LengthCheck(o.bytes, n.bytes)
        data == ReadAt(filesystem[d.filename].data, d.offset, Len(o.bytes))
        state == Classify(data, o.bytes, n.bytes)
        flushed == IF m.fail = "flush"
                   THEN SubSeq(n.bytes, 1, Min(m.k, Len(n.bytes)))
                   ELSE n.bytes
    IN  IF ~exists(filesystem, d.filename)
        THEN [out |-> <<"NOTFOUND">>, fs |-> filesystem]
        ELSE IF o.kind = "Error" \/ (o.kind = "bytes" /\ n.kind = "Error")
        THEN [out |-> <<"BADHEX">>, fs |-> filesystem]
        ELSE IF o.kind = "ValueError" \/ n.kind = "ValueError"
        THEN [out |-> <<"TRACEBACK">>, fs |-> filesystem]
        ELSE IF m.fail \in {"open", "read"}
        THEN [out |-> Append(warn, "ERROR"), fs |-> filesystem]
        ELSE IF state = "unpatched"
        THEN IF m.fail = "seek"
             THEN [out |-> warn \o <<"OK", "ERROR">>, fs |-> filesystem]
             ELSE [out |-> warn \o <<"OK", "SUCCESS">> \o
                             (IF m.fail = "flush" THEN <<"ERROR">> ELSE <<>>),
                   fs |-> [filesystem EXCEPT ![d.filename].data =
                              WriteAt(@, d.offset, flushed)]]
        ELSE IF state = "patched"
        THEN [out |-> Append(warn, "INFO"), fs |-> filesystem]
        ELSE [out |-> Append(warn, "FAIL"), fs |-> filesystem]

\* every call of a run is the one step above
StepwiseIsPatchFile ==
    \A c \in Calls :
        patch_file(c.before, c.d, ModeOf(c)) = [out |-> c.out, fs |-> c.after]

\* [offset, offset + max(len(original), len(replacement)))
WindowEnd(d) ==
    d.offset + Max(Len(Original(d).bytes), Len(Replacement(d).bytes))

DisjointWindows(d1, d2) ==
    \/ WindowEnd(d1) <= d2.offset
    \/ WindowEnd(d2) <= d1.offset

\* C16: for two descriptors D1 and D2 on the same file whose windows
\* [offset, offset + max(len(original), len(replacement))) are disjoint,
\* a run that applied D1 then D2 ends with the file content that applying
\* D2 then D1 to the same starting file system gives, and each descriptor
\* has the same result in both orders (the I/O of each descriptor's call
\* being treated by the environment alike in both orders)
C16_OrderIndependence ==
    Len(calls) = 2 =>
        LET D1 == calls[1].d
            D2 == calls[2].d
            second == patch_file(calls[1].before, D2, ModeOf(calls[2]))
            first == patch_file(second.fs, D1, ModeOf(calls[1]))
        IN  ( /\ D1.filename = D2.filename
              /\ WellFormed(D1) /\ WellFormed(D2)
              /\ DisjointWindows(D1, D2) ) =>
                /\ first.fs = calls[2].after
                /\ Result(first.out) = Result(calls[1].out)
                /\ Result(second.out) = Result(calls[2].out)

\* D1 then D2 were both applied to one file, at disjoint windows, with
\* different replacements, and both changed the file
C16_Witness ==
    /\ Len(calls) = 2
    /\ calls[1].d.filename = calls[2].d.filename
    /\ WellFormed(calls[1].d) /\ WellFormed(calls[2].d)
    /\ DisjointWindows(calls[1].d, calls[2].d)
    /\ Replacement(calls[1].d).bytes # Replacement(calls[2].d).bytes
    /\ Result(calls[1].out) = "Applied"
    /\ Result(calls[2].out) = "Applied"
    /\ calls[1].after # calls[1].before
    /\ calls[2].after # calls[2].before

====
